---- MODULE Spec2Model ----
(***************************************************************************)
(* Model of the Betfair file parser backend (betfair_file_parser_backend): *)
(* the decode-and-normalize pipeline of BetfairDataParser (main.py) and    *)
(* the CSV exporter DataExporter.to_csv, the two file stores (storage.py)  *)
(* and the file endpoints of the API (main.py).                            *)
(*                                                                         *)
(* Representation of the data:                                             *)
(*  - a decompressed text is the sequence of its lines (the pieces between *)
(*    '\n'); a line is blank (whitespace only), bad (json.loads raises     *)
(*    JSONDecodeError) or json (json.loads returns `value`);               *)
(*  - a JSON object is a TLA+ record that has exactly the keys present in  *)
(*    the object, so dict.get(k, default) is Get(d, k, default); the empty *)
(*    object is the function with the empty domain; a JSON array is a      *)
(*    sequence; numbers are integers (a float and the integer of the same  *)
(*    value are equal in Python as well);                                  *)
(*  - an Optional[...] field is a set: {} is None and {v} is the value v;  *)
(*  - an exception is a separate predicate (XRaises) beside the operator   *)
(*    that gives the value returned when nothing is raised.                *)
(* The inputs are well-typed JSON: the only pydantic rejection that these  *)
(* inputs can trigger is the required integer selection_id being None.     *)
(***************************************************************************)
EXTENDS Integers, Sequences, FiniteSets, TLC

VARIABLES file_content, records, attempted, result, csv_out,
          backend, store, uuids, response, saved, last_op, expect

parseVars == <<file_content, records, attempted, result, csv_out>>
storeVars == <<backend, store>>
ghostVars == <<last_op, expect>>

vars == <<file_content, records, attempted, result, csv_out,
          backend, store, uuids, response, saved, last_op, expect>>

(***************************************************************************)
(* Bounds of the explored inputs.                                          *)
(***************************************************************************)
MaxLines == 3
MaxRunners == 2
MaxCat == 2
MaxLadder == 2

(***************************************************************************)
(* Generic helpers.                                                        *)
(***************************************************************************)
SeqsUpTo(S, n) == UNION {[1..k -> S] : k \in 0..n}

RECURSIVE SumSeq(_)
SumSeq(s) == IF s = <<>> THEN 0 ELSE Head(s) + SumSeq(Tail(s))

\* dict.get(key, default)
Get(d, key, default) == IF key \in DOMAIN d THEN d[key] ELSE default

\* dict.get(key) for an Optional field: None when the key is absent
GetOpt(d, key) == IF key \in DOMAIN d THEN {d[key]} ELSE {}

EmptyDict == <<>>

(***************************************************************************)
(* BetfairDataParser.parse_json_stream                                     *)
(***************************************************************************)
BlankLine == [kind |-> "blank"]
BadLine == [kind |-> "bad"]
JsonLine(v) == [kind |-> "json", value |-> v]

\* str.strip() on the whole text: leading and trailing whitespace goes, and
\* with it every leading and trailing blank line
RECURSIVE LStrip(_)
LStrip(text) ==
    IF text # <<>> /\ Head(text).kind = "blank" THEN LStrip(Tail(text)) ELSE text

RECURSIVE RStrip(_)
RStrip(text) ==
    IF text # <<>> /\ text[Len(text)].kind = "blank"
    THEN RStrip(SubSeq(text, 1, Len(text) - 1))
    ELSE text

\* content.strip().split('\n'): the empty string splits into one empty line
StripSplit(text) ==
    LET s == RStrip(LStrip(text)) IN IF s = <<>> THEN <<BlankLine>> ELSE s

\* the mutant: the first line that fails to parse ends the loop (break)
RECURSIVE ParseLines_break(_)
ParseLines_break(lines) ==
    IF lines = <<>> THEN <<>>
    ELSE LET line == Head(lines) IN
         IF line.kind = "blank" THEN ParseLines_break(Tail(lines))
         ELSE IF line.kind = "json"
              THEN <<line.value>> \o ParseLines_break(Tail(lines))
              ELSE <<>>

\* the loop over the lines: blank lines are skipped, a line json.loads
\* rejects is logged and skipped, the others are appended in order
RECURSIVE ParseLines(_)
ParseLines(lines) ==
    IF lines = <<>> THEN <<>>
    ELSE LET line == Head(lines) IN
         IF line.kind = "blank" THEN ParseLines(Tail(lines))
         ELSE IF line.kind = "json"
              THEN <<line.value>> \o ParseLines(Tail(lines))
              ELSE ParseLines(Tail(lines))

parse_json_stream(content) == ParseLines(StripSplit(content))

(***************************************************************************)
(* BetfairDataParser.decompress_bz2                                        *)
(* A file is [bz, valid, text]: bz says that the bytes start with "BZ",    *)
(* valid that they are a complete BZip2 stream of UTF-8 text, and text is  *)
(* that text (<<>> when there is none).                                    *)
(***************************************************************************)
DecompressRaises(fc) == ~(fc.bz /\ fc.valid)

decompress_bz2(fc) == fc.text

(***************************************************************************)
(* BetfairDataParser._format_price_stakes                                  *)
(* An element of a raw ladder is [k, v]: k = "seq" is a JSON array with    *)
(* the elements v, k = "num" a bare number v[1], k = "str" a string that   *)
(* float() rejects.                                                        *)
(***************************************************************************)
SeqItem(v) == [k |-> "seq", v |-> v]
NumItem(n) == [k |-> "num", v |-> <<n>>]
StrItem == [k |-> "str", v |-> <<>>]

\* float(item) raises ValueError on the string
FormatRaises(raw_data) == \E i \in 1..Len(raw_data) : raw_data[i].k = "str"

\* the mutant: the coerced scalar lands in the stake position
format_price_stakes_swapped(raw_data) ==
    IF raw_data = <<>> THEN <<>>
    ELSE [i \in 1..Len(raw_data) |->
            IF raw_data[i].k = "seq" THEN raw_data[i].v
            ELSE <<0, raw_data[i].v[1]>>]

format_price_stakes(raw_data) ==
    IF raw_data = <<>> THEN <<>>
    ELSE [i \in 1..Len(raw_data) |->
            IF raw_data[i].k = "seq" THEN raw_data[i].v
            ELSE <<raw_data[i].v[1], 0>>]

(***************************************************************************)
(* BetfairDataParser.extract_market_data                                   *)
(* A decoded line value is [t |-> "dict", d |-> the object] or, for any    *)
(* JSON value that is not an object, [t |-> "other"].                      *)
(***************************************************************************)
DictValue(d) == [t |-> "dict", d |-> d]
OtherValue == [t |-> "other"]

\* stream_data.get('mc', [{}])
McList(stream_data) == Get(stream_data, "mc", <<EmptyDict>>)

\* the mutant: the scan keeps going after a match, so the last match wins
RECURSIVE RunnerName_last(_, _)
RunnerName_last(runner_catalogue, selection_id) ==
    IF runner_catalogue = <<>> THEN "Unknown"
    ELSE LET n == Len(runner_catalogue)
             rc == runner_catalogue[n] IN
         IF GetOpt(rc, "selectionId") = selection_id
         THEN Get(rc, "runnerName", "Unknown")
         ELSE RunnerName_last(SubSeq(runner_catalogue, 1, n - 1), selection_id)

\* the scan of the catalogue runners for the book entry's selection id:
\* the first entry whose selectionId equals it gives the name, and the scan stops
RECURSIVE RunnerName(_, _)
RunnerName(runner_catalogue, selection_id) ==
    IF runner_catalogue = <<>> THEN "Unknown"
    ELSE LET rc == Head(runner_catalogue) IN
         IF GetOpt(rc, "selectionId") = selection_id
         THEN Get(rc, "runnerName", "Unknown")
         ELSE RunnerName(Tail(runner_catalogue), selection_id)

\* the five raw ladders of a book entry, as the code reads them
RawLadder(runner_book, sub, field) ==
    Get(Get(runner_book, sub, EmptyDict), field, <<>>)

\* building one Runner raises: float() on a string ladder element, or
\* pydantic's rejection of selection_id = None
BookRaises(runner_book) ==
    \/ FormatRaises(RawLadder(runner_book, "sp", "bst"))
    \/ FormatRaises(RawLadder(runner_book, "sp", "lst"))
    \/ FormatRaises(RawLadder(runner_book, "ex", "atb"))
    \/ FormatRaises(RawLadder(runner_book, "ex", "atl"))
    \/ FormatRaises(RawLadder(runner_book, "ex", "tv"))
    \/ GetOpt(runner_book, "id") = {}

\* one pass of the loop over runner_books
MakeRunner(runner_book, market_catalogue) ==
    LET selection_id == GetOpt(runner_book, "id")
        bsp_data == Get(runner_book, "sp", EmptyDict)
        ex_data == Get(runner_book, "ex", EmptyDict)
    IN  [selection_id |-> CHOOSE i \in selection_id : TRUE,
         runner_name |-> RunnerName(Get(market_catalogue, "runners", <<>>), selection_id),
         status |-> Get(runner_book, "status", "ACTIVE"),
         bsp |-> [near_price |-> GetOpt(bsp_data, "n"),
                  far_price |-> GetOpt(bsp_data, "f"),
                  actual_sp |-> GetOpt(bsp_data, "l"),
                  back_stake_taken |-> format_price_stakes(Get(bsp_data, "bst", <<>>)),
                  lay_liability_taken |-> format_price_stakes(Get(bsp_data, "lst", <<>>))],
         ex |-> [available_to_back |-> format_price_stakes(Get(ex_data, "atb", <<>>)),
                 available_to_lay |-> format_price_stakes(Get(ex_data, "atl", <<>>)),
                 traded_volume |-> format_price_stakes(Get(ex_data, "tv", <<>>))],
         last_price_traded |-> GetOpt(runner_book, "ltp"),
         adjustment_factor |-> Get(runner_book, "adjustmentFactor", 1)]

\* the mutant: the count is copied from the record's market definition
NumberOfRunners_copied(stream_data, runners) ==
    Get(Get(stream_data, "marketDefinition", EmptyDict), "numberOfActiveRunners",
        Len(runners))

\* number_of_runners = len(runners)
NumberOfRunners(stream_data, runners) == Len(runners)

\* extract_market_data raises: the value is no object (no .get), mc is the
\* empty list ([][0]), or building a Runner raises
ExtractRaises(value) ==
    \/ value.t # "dict"
    \/ /\ value.t = "dict"
       /\ \/ McList(value.d) = <<>>
          \/ /\ McList(value.d) # <<>>
             /\ LET runner_books == Get(McList(value.d)[1], "runners", <<>>) IN
                \E i \in 1..Len(runner_books) : BookRaises(runner_books[i])

\* the Market extract_market_data returns when it raises nothing
extract_market_data(value) ==
    LET stream_data == value.d
        market_book == McList(stream_data)[1]
        market_id == Get(market_book, "id", "UNKNOWN")
        market_definition == Get(stream_data, "marketDefinition", EmptyDict)
        name0 == Get(market_definition, "name", "Unknown Market")
        event == Get(market_definition, "event", EmptyDict)
        market_catalogue == Get(stream_data, "marketCatalogue", EmptyDict)
        market_name == IF name0 = "" \/ name0 = "Unknown Market"
                       THEN Get(market_catalogue, "marketName", name0)
                       ELSE name0
        runner_books == Get(market_book, "runners", <<>>)
        runners == [i \in 1..Len(runner_books) |->
                        MakeRunner(runner_books[i], market_catalogue)]
    IN  [market_id |-> market_id,
         market_name |-> market_name,
         market_type |-> Get(market_definition, "marketType", "UNKNOWN"),
         event_id |-> Get(event, "id", ""),
         event_name |-> Get(event, "name", ""),
         event_date |-> Get(event, "openDate", ""),
         country_code |-> Get(event, "countryCode", ""),
         market_status |-> Get(market_definition, "status", "UNKNOWN"),
         inplay |-> Get(market_definition, "inPlay", FALSE),
         total_matched |-> Get(market_book, "tv", 0),
         total_available |-> Get(market_book, "totalAvailable", 0),
         number_of_runners |-> NumberOfRunners(stream_data, runners),
         number_of_winners |-> Get(market_definition, "numberOfWinners", 1),
         publish_time |-> GetOpt(stream_data, "publishTime"),
         version |-> GetOpt(stream_data, "version"),
         runners |-> runners]

(***************************************************************************)
(* BetfairDataParser.parse_file                                            *)
(***************************************************************************)
\* the mutant: the first record that fails ends the loop
RECURSIVE NormalizeLoop_abort(_)
NormalizeLoop_abort(recs) ==
    IF recs = <<>> THEN <<>>
    ELSE IF ExtractRaises(Head(recs)) THEN <<>>
         ELSE <<extract_market_data(Head(recs))>> \o NormalizeLoop_abort(Tail(recs))

\* the mutant: each market is inserted at the front of the list
RECURSIVE NormalizeLoop_prepend(_)
NormalizeLoop_prepend(recs) ==
    IF recs = <<>> THEN <<>>
    ELSE IF ExtractRaises(Head(recs)) THEN NormalizeLoop_prepend(Tail(recs))
         ELSE NormalizeLoop_prepend(Tail(recs)) \o <<extract_market_data(Head(recs))>>

\* the loop over the records: `markets` after it. A record whose
\* extract_market_data raises is logged and skipped.
RECURSIVE NormalizeLoop(_)
NormalizeLoop(recs) ==
    IF recs = <<>> THEN <<>>
    ELSE IF ExtractRaises(Head(recs)) THEN NormalizeLoop(Tail(recs))
         ELSE <<extract_market_data(Head(recs))>> \o NormalizeLoop(Tail(recs))

\* the runner book entries a record carries, whether or not it normalizes
BookCount(value) ==
    IF value.t = "dict" /\ McList(value.d) # <<>>
    THEN Len(Get(McList(value.d)[1], "runners", <<>>))
    ELSE 0

\* the mutant: the runners are counted before the record is normalized, so
\* a skipped record is counted too
RECURSIVE LoopTotalRunners_early(_)
LoopTotalRunners_early(recs) ==
    IF recs = <<>> THEN 0
    ELSE BookCount(Head(recs)) + LoopTotalRunners_early(Tail(recs))

\* the same loop: `total_runners` after it
RECURSIVE LoopTotalRunners(_)
LoopTotalRunners(recs) ==
    IF recs = <<>> THEN 0
    ELSE IF ExtractRaises(Head(recs)) THEN LoopTotalRunners(Tail(recs))
         ELSE Len(extract_market_data(Head(recs)).runners)
                + LoopTotalRunners(Tail(recs))

\* the mutant: an empty record list is let through
NoRecords_never(recs) == FALSE

\* if not records
NoRecords(recs) == recs = <<>>

ErrDecompress == "Decompression failed"
ErrNoRecords == "No valid records found in file"
ErrNoMarkets == "No valid markets found in file"

Failed(msg) == [status |-> "error", error |-> msg]
Returned(bundle) == [status |-> "ok", bundle |-> bundle]
NotCalled == [status |-> "none"]

\* `records` as parse_file holds it (<<>> when decompression raised)
ParsedRecords(fc) ==
    IF DecompressRaises(fc) THEN <<>> ELSE parse_json_stream(decompress_bz2(fc))

\* the number of calls of extract_market_data parse_file makes
Attempts(fc) ==
    IF DecompressRaises(fc) \/ NoRecords(ParsedRecords(fc))
    THEN 0
    ELSE Len(ParsedRecords(fc))

\* what parse_file returns or raises; file_id is the value of its
\* uuid.uuid4(). The timing and size figures (processing_time_ms, the byte
\* sizes, the timestamps) are left out.
parse_file(fc, file_name, file_id) ==
    IF DecompressRaises(fc) THEN Failed(ErrDecompress)
    ELSE LET recs == parse_json_stream(decompress_bz2(fc)) IN
         IF NoRecords(recs) THEN Failed(ErrNoRecords)
         ELSE LET markets == NormalizeLoop(recs)
                  total_runners == LoopTotalRunners(recs) IN
              IF markets = <<>> THEN Failed(ErrNoMarkets)
              ELSE Returned([file_metadata |-> [file_id |-> file_id,
                                                file_name |-> file_name,
                                                processing_status |-> "completed"],
                             markets |-> markets,
                             processing_stats |-> [total_records |-> Len(recs),
                                                   total_runners |-> total_runners]])

(***************************************************************************)
(* DataExporter.to_csv                                                     *)
(* A CSV line is the sequence of its cells (the texts the f-string joins   *)
(* with commas); the names of the explored inputs hold no comma and no     *)
(* newline. The output is the sequence of the lines '\n'.join joins.       *)
(***************************************************************************)
IntText(n) == ToString(n)

\* str() of a float of integral value
FloatText(n) == ToString(n) \o ".0"

\* the mutant: the field is formatted as it is (f'{x}'), so None renders as "None"
PriceCell_plain(opt) ==
    IF opt = {} THEN "None" ELSE FloatText(CHOOSE v \in opt : TRUE)

\* f'{x or ""}' for an Optional[float]: None and 0.0 are both falsy
PriceCell(opt) ==
    IF opt = {} THEN ""
    ELSE LET x == CHOOSE v \in opt : TRUE IN
         IF x = 0 THEN "" ELSE FloatText(x)

\* sum([stake for _, stake in ladder]): the int 0 for an empty ladder
VolCell(ladder) ==
    IF ladder = <<>> THEN "0"
    ELSE FloatText(SumSeq([i \in 1..Len(ladder) |-> ladder[i][2]]))

\* `for _, stake in ladder` raises ValueError on an entry that is no pair
UnpackRaises(ladder) == \E i \in 1..Len(ladder) : Len(ladder[i]) # 2

HeaderRow(include_prices) ==
    IF include_prices
    THEN <<"Market ID", "Market Name", "Event Name", "Runner ID", "Runner Name",
           "Status", "Last Traded", "Near Price", "Far Price", "Actual SP",
           "Back Vol", "Lay Vol">>
    ELSE <<"Market ID", "Market Name", "Event Name", "Runner ID", "Runner Name",
           "Status">>

DataRow(market, runner, include_prices) ==
    LET base == <<market.market_id, market.market_name, market.event_name,
                  IntText(runner.selection_id), runner.runner_name, runner.status>>
    IN  IF include_prices
        THEN base \o <<PriceCell(runner.last_price_traded),
                       PriceCell(runner.bsp.near_price),
                       PriceCell(runner.bsp.far_price),
                       PriceCell(runner.bsp.actual_sp),
                       VolCell(runner.ex.available_to_back),
                       VolCell(runner.ex.available_to_lay)>>
        ELSE base

\* the inner loop: one row per runner of the market
MarketRows(market, include_prices) ==
    [j \in 1..Len(market.runners) |->
        DataRow(market, market.runners[j], include_prices)]

\* the outer loop
RECURSIVE AllRows(_, _)
AllRows(markets, include_prices) ==
    IF markets = <<>> THEN <<>>
    ELSE MarketRows(Head(markets), include_prices)
            \o AllRows(Tail(markets), include_prices)

ToCsvRaises(markets, include_prices) ==
    /\ include_prices
    /\ \E i \in 1..Len(markets) : \E j \in 1..Len(markets[i].runners) :
          \/ UnpackRaises(markets[i].runners[j].ex.available_to_back)
          \/ UnpackRaises(markets[i].runners[j].ex.available_to_lay)

\* the lines of the text to_csv returns
to_csv(markets, include_prices) ==
    <<HeaderRow(include_prices)>> \o AllRows(markets, include_prices)

CsvNotCalled == [status |-> "none"]
CsvRaised(include_prices) == [status |-> "raised", include_prices |-> include_prices]
CsvReturned(include_prices, lines) ==
    [status |-> "ok", include_prices |-> include_prices, lines |-> lines]

(***************************************************************************)
(* uuid.uuid4: the values are random and taken to be all different; the   *)
(* n-th value generated is n, and `uuids` counts the values generated.     *)
(***************************************************************************)
MaxUuids == 4

Ids == 1..MaxUuids

uuid4(generated) == generated + 1

(***************************************************************************)
(* storage.py: FileStore. self.files is a dict, modelled as the sequence   *)
(* of its items [k, v] in insertion order.                                 *)
(***************************************************************************)
DictHas(d, key) == \E i \in 1..Len(d) : d[i].k = key

\* d.get(key): None when the key is absent
DictGet(d, key) ==
    IF DictHas(d, key) THEN {d[CHOOSE i \in 1..Len(d) : d[i].k = key].v} ELSE {}

\* d[key] = value: a key the dict has keeps its place
DictSet(d, key, value) ==
    IF DictHas(d, key)
    THEN [i \in 1..Len(d) |-> IF d[i].k = key THEN [k |-> key, v |-> value] ELSE d[i]]
    ELSE Append(d, [k |-> key, v |-> value])

\* del d[key]
DictDel(d, key) == SelectSeq(d, LAMBDA item : item.k # key)

FileStore_save(st, file_id, data) ==
    [st EXCEPT !.files = DictSet(st.files, file_id, data)]

FileStore_get(st, file_id) == DictGet(st.files, file_id)

FileStore_delete(st, file_id) ==
    IF DictHas(st.files, file_id)
    THEN [st EXCEPT !.files = DictDel(st.files, file_id)]
    ELSE st

FileStore_list_files(st) == [i \in 1..Len(st.files) |-> st.files[i].v]

(***************************************************************************)
(* storage.py: CloudFileStore. The bucket is `blobs`, from a path to the   *)
(* JSON text stored there, and the Firestore collection is `docs`, from a  *)
(* document id to its metadata; both are Optional ({} is "does not         *)
(* exist"). The path files/<id>/parsed_data.json is modelled by <id>.      *)
(* A call of a cloud client may raise; the parameter `fail` of an          *)
(* operation says which call does.                                         *)
(***************************************************************************)
get_gcs_path(file_id) == file_id

\* json.dumps(data, default=str) and json.loads: the bundle holds only
\* strings, numbers, booleans, None, lists and dicts, which load back equal
json_dumps(data) == [json |-> data]
json_loads(text) == text.json

extract_metadata(data) ==
    [file_id |-> data.file_metadata.file_id,
     file_name |-> data.file_metadata.file_name,
     processing_status |-> data.file_metadata.processing_status,
     total_markets |-> Len(data.markets),
     total_runners |-> data.processing_stats.total_runners,
     gcs_path |-> get_gcs_path(data.file_metadata.file_id)]

SaveFailures == {"none", "upload", "set"}
DeleteFailures == {"none", "blob", "doc"}

\* CloudFileStore.save raises
CloudSaveRaises(fail) == fail # "none"

\* the store after CloudFileStore.save: the blob is uploaded, then the
\* document is set; when either raises, the blob at the path is deleted if
\* it exists, unless that cleanup raises too (it is swallowed)
CloudFileStore_save(st, file_id, data, fail, cleanup_fails) ==
    LET gcs_path == get_gcs_path(file_id)
        uploaded == IF fail = "upload" THEN st.blobs
                    ELSE [st.blobs EXCEPT ![gcs_path] = {json_dumps(data)}]
    IN  IF fail = "none"
        THEN [st EXCEPT !.blobs = uploaded,
                        !.docs = [st.docs EXCEPT ![file_id] = {extract_metadata(data)}]]
        ELSE IF cleanup_fails
             THEN [st EXCEPT !.blobs = uploaded]
             ELSE [st EXCEPT !.blobs = [uploaded EXCEPT ![gcs_path] = {}]]

\* CloudFileStore.get: every exception is swallowed and gives None
CloudFileStore_get(st, file_id, fails) ==
    IF fails \/ st.docs[file_id] = {} THEN {}
    ELSE LET metadata == CHOOSE m \in st.docs[file_id] : TRUE
             gcs_path == metadata.gcs_path
         IN  IF st.blobs[gcs_path] = {} THEN {}
             ELSE {json_loads(CHOOSE b \in st.blobs[gcs_path] : TRUE)}

CloudDeleteRaises(fail) == fail # "none"

\* the store after CloudFileStore.delete: the blob is deleted if it exists,
\* then the document; an exception is raised on to the caller
CloudFileStore_delete(st, file_id, fail) ==
    LET gcs_path == get_gcs_path(file_id) IN
    IF fail = "blob" THEN st
    ELSE IF fail = "doc" THEN [st EXCEPT !.blobs[gcs_path] = {}]
    ELSE [st EXCEPT !.blobs[gcs_path] = {}, !.docs[file_id] = {}]

\* the documents of collection.stream(), in the order of their ids
RECURSIVE DocsFrom(_, _)
DocsFrom(st, id) ==
    IF id > MaxUuids THEN <<>>
    ELSE (IF st.docs[id] = {} THEN <<>> ELSE <<CHOOSE m \in st.docs[id] : TRUE>>)
            \o DocsFrom(st, id + 1)

\* CloudFileStore.list_files: built from the metadata alone; an exception
\* is swallowed and gives []
CloudFileStore_list_files(st, fails) ==
    IF fails THEN <<>>
    ELSE LET ms == DocsFrom(st, 1) IN
         [i \in 1..Len(ms) |->
            [file_metadata |-> [file_id |-> ms[i].file_id,
                                file_name |-> ms[i].file_name,
                                processing_status |-> ms[i].processing_status],
             processing_stats |-> [total_records |-> ms[i].total_markets,
                                   total_runners |-> ms[i].total_runners],
             markets |-> <<>>]]

\* create_file_store: the store is empty when the process starts. (The
\* documents and blobs of a cloud store outlive the process; the runs
\* explored start from an empty bucket and collection.)
EmptyStore ==
    [files |-> <<>>, blobs |-> [i \in Ids |-> {}], docs |-> [i \in Ids |-> {}]]

Backends == {"memory", "cloud"}

\* file_store.save / get / delete / list_files of the store in use
StoreSaveRaises(be, fail) == be = "cloud" /\ CloudSaveRaises(fail)

StoreSave(be, st, file_id, data, fail, cleanup_fails) ==
    IF be = "cloud" THEN CloudFileStore_save(st, file_id, data, fail, cleanup_fails)
    ELSE FileStore_save(st, file_id, data)

StoreGet(be, st, file_id, fails) ==
    IF be = "cloud" THEN CloudFileStore_get(st, file_id, fails)
    ELSE FileStore_get(st, file_id)

StoreDeleteRaises(be, fail) == be = "cloud" /\ CloudDeleteRaises(fail)

StoreDelete(be, st, file_id, fail) ==
    IF be = "cloud" THEN CloudFileStore_delete(st, file_id, fail)
    ELSE FileStore_delete(st, file_id)

StoreList(be, st, fails) ==
    IF be = "cloud" THEN CloudFileStore_list_files(st, fails)
    ELSE FileStore_list_files(st)

(***************************************************************************)
(* The explored inputs.                                                    *)
(***************************************************************************)
\* runner book entries: two well-formed ones and one without the id
Book1 == [id |-> 111]
Book2 == [id |-> 222, status |-> "REMOVED"]
BookNoId == [status |-> "ACTIVE"]

\* (a) texts of up to MaxLines lines: blank and unparsable lines, a JSON
\* value that is no object, and objects that do and do not normalize
ValueNoMc ==
    DictValue([marketDefinition |-> [name |-> "Place", numberOfActiveRunners |-> 7]])
ValueEmptyMc == DictValue([mc |-> <<>>])
ValueOne == DictValue([mc |-> <<[id |-> "1.1", runners |-> <<Book1>>]>>])
ValueTwo ==
    DictValue([mc |-> <<[id |-> "1.2", runners |-> <<Book2, Book1>>, tv |-> 50]>>,
               marketDefinition |-> [name |-> "Win", marketType |-> "WIN",
                                     status |-> "OPEN", inPlay |-> TRUE,
                                     numberOfActiveRunners |-> 7,
                                     event |-> [name |-> "Ascot"]],
               marketCatalogue |-> [marketName |-> "Win Market",
                                    runners |-> <<[selectionId |-> 111,
                                                   runnerName |-> "A"]>>]])
ValueNoMarketId == DictValue([mc |-> <<[runners |-> <<Book1>>]>>])
ValueBadRunner == DictValue([mc |-> <<[id |-> "1.3", runners |-> <<Book1, BookNoId>>]>>])

TextLines ==
    {BlankLine, BadLine}
    \cup {JsonLine(v) : v \in {OtherValue, ValueNoMc, ValueEmptyMc, ValueOne,
                               ValueTwo, ValueNoMarketId, ValueBadRunner}}

TextFamily == SeqsUpTo(TextLines, MaxLines)

\* (b) one record with up to MaxRunners book entries and a catalogue of up
\* to MaxCat entries, each with or without selectionId and runnerName
CatEntries ==
    {[selectionId |-> s, runnerName |-> n] : s \in {111, 222}, n \in {"A", "B"}}
    \cup {[selectionId |-> 111], [runnerName |-> "A"]}

Catalogues ==
    {[runners |-> c] : c \in SeqsUpTo(CatEntries, MaxCat)}
    \cup {[marketName |-> "Win Market"]}

CatRecords ==
    LET Mcs == {<<[id |-> "1.23", runners |-> b]>> :
                    b \in SeqsUpTo({Book1, Book2, BookNoId}, MaxRunners)}
    IN  {[mc |-> m, marketCatalogue |-> c] : m \in Mcs, c \in Catalogues}
        \cup {[mc |-> m] : m \in Mcs}

\* (c) one record with one book entry, one of whose five ladder fields holds
\* any raw ladder of up to MaxLadder elements; the other four are absent or
\* hold five different ladders
LadderItems == {SeqItem(<<3, 5>>), SeqItem(<<6>>), NumItem(4), StrItem}

RawLadders == SeqsUpTo(LadderItems, MaxLadder)

LadderFields ==
    {<<"sp", "bst">>, <<"sp", "lst">>, <<"ex", "atb">>, <<"ex", "atl">>, <<"ex", "tv">>}

FullBook ==
    [id |-> 111, status |-> "ACTIVE", ltp |-> 4, adjustmentFactor |-> 9,
     sp |-> [n |-> 2, f |-> 3, l |-> 0,
             bst |-> <<SeqItem(<<1, 10>>)>>, lst |-> <<SeqItem(<<2, 20>>)>>],
     ex |-> [atb |-> <<SeqItem(<<3, 30>>), SeqItem(<<4, 40>>)>>,
             atl |-> <<SeqItem(<<5, 50>>)>>,
             tv |-> <<SeqItem(<<6, 60>>)>>]]

LadderBooks ==
    {[FullBook EXCEPT ![f[1]][f[2]] = l] : f \in LadderFields, l \in RawLadders}
    \cup {[id |-> 111] @@ (f[1] :> (f[2] :> l)) : f \in LadderFields, l \in RawLadders}

LadderRecords == {[mc |-> <<[id |-> "1.5", runners |-> <<b>>]>>] : b \in LadderBooks}

Texts ==
    TextFamily \cup {<<JsonLine(DictValue(r))>> : r \in CatRecords \cup LadderRecords}

\* the uploaded files: BZip2 streams of the texts, a corrupt BZip2 stream
\* and bytes that are no BZip2 stream at all
Files ==
    {[bz |-> TRUE, valid |-> TRUE, text |-> t] : t \in Texts}
    \cup {[bz |-> TRUE, valid |-> FALSE, text |-> <<>>],
          [bz |-> FALSE, valid |-> FALSE, text |-> <<>>]}

FileNames == {"a.bz2"}

(***************************************************************************)
(* main.py: the endpoints. A response is the status and detail the client  *)
(* gets, with the body's fields when the status is 200.                    *)
(***************************************************************************)
NoResponse == [op |-> "none", status |-> 0, detail |-> ""]

\* raise HTTPException(status_code, detail), as http_exception_handler
\* answers it
HttpError(op, status_code, detail) ==
    [op |-> op, status |-> status_code, detail |-> detail]

ErrEmptyFile == "Empty file"
ErrTooLarge == "File too large (max 500MB)"
ErrInvalidFormat == "Invalid file format. Expected BZip2 compressed file (.bz2)"
ErrParsing == "Parsing error: "
ErrInternal == "Internal server error"
ErrNotFound == "File not found"
ErrUnsupported == "Unsupported export format"
ErrExport == "Export failed"

\* not content / len(content) > 500 * 1024 * 1024
IsEmpty(content) == content.size = "empty"
TooLarge(content) == content.size = "huge"

StartsWithBZ_any(content) == TRUE
\* content.startswith(b'BZ')
StartsWithBZ(content) == content.bz

\* upload_file reaches the call of parse_file
ParseInvoked(content) ==
    ~IsEmpty(content) /\ ~TooLarge(content) /\ StartsWithBZ(content)

UploadOk(file_id, file_name) ==
    [op |-> "upload", status |-> 200, detail |-> "",
     file_id |-> file_id, file_name |-> file_name]

\* the response of upload_file, given what parse_file gave and whether
\* file_store.save raised
upload_file(content, file_name, file_id, parse_result, save_raises) ==
    IF IsEmpty(content) THEN HttpError("upload", 400, ErrEmptyFile)
    ELSE IF TooLarge(content) THEN HttpError("upload", 413, ErrTooLarge)
    ELSE IF ~StartsWithBZ(content) THEN HttpError("upload", 400, ErrInvalidFormat)
    ELSE IF parse_result.status = "error"
         THEN HttpError("upload", 400, ErrParsing \o parse_result.error)
    ELSE IF save_raises THEN HttpError("upload", 500, ErrInternal)
    ELSE UploadOk(file_id, file_name)

get_file_data(file_id, file_data) ==
    IF file_data = {} THEN HttpError("get", 404, ErrNotFound)
    ELSE [op |-> "get", status |-> 200, detail |-> "", file_id |-> file_id,
          data |-> CHOOSE d \in file_data : TRUE]

list_files(files) ==
    [op |-> "list", status |-> 200, detail |-> "",
     files |-> [i \in 1..Len(files) |->
                  [file_id |-> files[i].file_metadata.file_id,
                   file_name |-> files[i].file_metadata.file_name,
                   status |-> files[i].file_metadata.processing_status,
                   markets |-> Len(files[i].markets)]]]

\* the response of delete_file; an exception of file_store.delete is
\* answered by general_exception_handler
delete_file(file_id, file_data, delete_raises) ==
    IF file_data = {} THEN HttpError("delete", 404, ErrNotFound)
    ELSE IF delete_raises THEN HttpError("delete", 500, ErrInternal)
    ELSE [op |-> "delete", status |-> 200, detail |-> "File deleted",
          file_id |-> file_id]

\* str.lower on the formats explored
Lower(format) ==
    CASE format = "CSV" -> "csv"
      [] format = "Json" -> "json"
      [] format = "XML" -> "xml"
      [] OTHER -> format

Formats == {"csv", "CSV", "json", "Json", "xml", "XML", ""}

\* DataExporter.to_json
to_json(data) == json_dumps(data)

\* the response of export_file: every exception raised inside its try,
\* the HTTPException of the unsupported format included, is caught by
\* `except Exception` and answered with 500
export_file(file_id, file_data, format, include_prices) ==
    IF file_data = {} THEN HttpError("export", 404, ErrNotFound)
    ELSE LET parse_result == CHOOSE d \in file_data : TRUE IN
         IF Lower(format) = "csv"
         THEN IF ToCsvRaises(parse_result.markets, include_prices)
              THEN HttpError("export", 500, ErrExport)
              ELSE [op |-> "export", status |-> 200, detail |-> "",
                    media_type |-> "text/csv",
                    csv |-> to_csv(parse_result.markets, include_prices)]
         ELSE IF Lower(format) = "json"
         THEN [op |-> "export", status |-> 200, detail |-> "",
               media_type |-> "application/json", json |-> to_json(parse_result)]
         ELSE HttpError("export", 500, ErrExport)

(***************************************************************************)
(* The inputs of the store and of the endpoints.                           *)
(***************************************************************************)
\* the faults of the cloud clients during one call; FileStore has none
SaveFaults(be) ==
    IF be = "cloud"
    THEN {[fail |-> "none", cleanup_fails |-> FALSE]}
         \cup [fail : {"upload", "set"}, cleanup_fails : BOOLEAN]
    ELSE {[fail |-> "none", cleanup_fails |-> FALSE]}

DeleteFaults(be) == IF be = "cloud" THEN DeleteFailures ELSE {"none"}

ReadFaults(be) == IF be = "cloud" THEN BOOLEAN ELSE {FALSE}

FileOne == [bz |-> TRUE, valid |-> TRUE, text |-> <<JsonLine(ValueOne)>>]
FileTwo == [bz |-> TRUE, valid |-> TRUE, text |-> <<JsonLine(ValueTwo)>>]

\* a file whose export with prices raises: a ladder entry that is no pair
FileOddLadder ==
    [bz |-> TRUE, valid |-> TRUE,
     text |-> <<JsonLine(DictValue(
                  [mc |-> <<[id |-> "1.5",
                             runners |-> <<[id |-> 111,
                                            atb |-> <<SeqItem(<<6>>)>>]>>]>>]))>>]

\* the ids and the bundles handed to the store directly: a bundle's own
\* file_metadata.file_id may be the id it is saved under or another one
StoreIds == {1, 2}

StoreBundles ==
    {parse_file(fc, "a.bz2", file_id).bundle :
        fc \in {FileOne, FileTwo}, file_id \in StoreIds}

Sized(fc, size) == [bz |-> fc.bz, valid |-> fc.valid, text |-> fc.text, size |-> size]

\* the uploaded contents: b'', other bytes that do not start with BZ,
\* BZip2 streams (corrupt, without records, without markets, good), and
\* contents over the size limit
UploadContents ==
    {Sized([bz |-> FALSE, valid |-> FALSE, text |-> <<>>], size) :
        size \in {"empty", "normal", "huge"}}
    \cup {Sized(FileOne, "huge")}
    \cup {Sized(fc, "normal") :
            fc \in {[bz |-> TRUE, valid |-> FALSE, text |-> <<>>],
                    [bz |-> TRUE, valid |-> TRUE, text |-> <<BadLine>>],
                    [bz |-> TRUE, valid |-> TRUE, text |-> <<JsonLine(ValueNoMc)>>],
                    FileOne, FileTwo, FileOddLadder}}

\* what is known of get(id) from the calls so far
Unknown == [k |-> "unknown"]
Absent == [k |-> "absent"]
Saved(data) == [k |-> "saved", data |-> data]

NoOp == [op |-> "none"]

(***************************************************************************)
(* The state machines.                                                     *)
(*   file_content  the bytes handed to parse_file (the last upload's)      *)
(*   records       parse_file's `records`                                  *)
(*   attempted     the calls of extract_market_data parse_file has made    *)
(*   result        what parse_file returned or raised                      *)
(*   csv_out       what to_csv returned or raised on the bundle's markets  *)
(*   backend       which class create_file_store returned                  *)
(*   store         FileStore.files, and the bucket and the collection      *)
(*   uuids         the number of uuid4 values generated                    *)
(*   response      the response of the last request                        *)
(*   saved         the last request called file_store.save                 *)
(*   last_op       the last call of the store made directly, its           *)
(*                 arguments, whether it raised or what it returned, and   *)
(*                 what get(id) returned before it                         *)
(*   expect        per id, the bundle the last completed save(id, ...)     *)
(*                 stored, or that delete(id) completed since              *)
(* Spec parses one file and exports its markets; SpecStore calls the       *)
(* store's methods; SpecApi sends requests to the endpoints.               *)
(***************************************************************************)
InitService ==
    /\ store = EmptyStore
    /\ uuids = 0
    /\ response = NoResponse
    /\ saved = FALSE
    /\ last_op = NoOp
    /\ expect = [id \in Ids |-> Unknown]

InitParse ==
    /\ records = <<>>
    /\ attempted = 0
    /\ result = NotCalled
    /\ csv_out = CsvNotCalled

Init ==
    /\ file_content \in Files
    /\ InitParse
    /\ backend = "memory"
    /\ InitService

ParseFile ==
    /\ result.status = "none"
    /\ \E file_name \in FileNames :
          result' = parse_file(file_content, file_name, uuid4(uuids))
    /\ uuids' = IF result'.status = "ok" THEN uuids + 1 ELSE uuids
    /\ records' = ParsedRecords(file_content)
    /\ attempted' = Attempts(file_content)
    /\ UNCHANGED <<file_content, csv_out, storeVars, response, saved, ghostVars>>

ToCsv ==
    /\ result.status = "ok"
    /\ \E include_prices \in BOOLEAN :
          csv_out' = IF ToCsvRaises(result.bundle.markets, include_prices)
                     THEN CsvRaised(include_prices)
                     ELSE CsvReturned(include_prices,
                                      to_csv(result.bundle.markets, include_prices))
    /\ UNCHANGED <<file_content, records, attempted, result,
                   storeVars, uuids, response, saved, ghostVars>>

Next == ParseFile \/ ToCsv

Spec == Init /\ [][Next]_vars

\* ---- the store, called directly ----
InitStore ==
    /\ file_content = Sized(FileOne, "normal")
    /\ InitParse
    /\ backend \in Backends
    /\ InitService

Save ==
    \E id \in StoreIds, data \in StoreBundles, fault \in SaveFaults(backend) :
        LET raised == StoreSaveRaises(backend, fault.fail) IN
        /\ store' = StoreSave(backend, store, id, data, fault.fail, fault.cleanup_fails)
        /\ last_op' = [op |-> "save", id |-> id, data |-> data, raised |-> raised,
                       before |-> StoreGet(backend, store, id, FALSE)]
        /\ expect' = [expect EXCEPT ![id] = IF raised THEN Unknown ELSE Saved(data)]
        /\ UNCHANGED <<parseVars, backend, uuids, response, saved>>

GetStored ==
    \E id \in StoreIds, fails \in ReadFaults(backend) :
        /\ last_op' = [op |-> "get", id |-> id,
                       found |-> StoreGet(backend, store, id, fails)]
        /\ UNCHANGED <<parseVars, storeVars, uuids, response, saved, expect>>

Delete ==
    \E id \in StoreIds, fail \in DeleteFaults(backend) :
        LET raised == StoreDeleteRaises(backend, fail) IN
        /\ store' = StoreDelete(backend, store, id, fail)
        /\ last_op' = [op |-> "delete", id |-> id, raised |-> raised,
                       before |-> StoreGet(backend, store, id, FALSE)]
        /\ expect' = [expect EXCEPT ![id] = IF raised THEN Unknown ELSE Absent]
        /\ UNCHANGED <<parseVars, backend, uuids, response, saved>>

ListStored ==
    \E fails \in ReadFaults(backend) :
        /\ last_op' = [op |-> "list", files |-> StoreList(backend, store, fails)]
        /\ UNCHANGED <<parseVars, storeVars, uuids, response, saved, expect>>

NextStore == Save \/ GetStored \/ Delete \/ ListStored

SpecStore == InitStore /\ [][NextStore]_vars

\* ---- the endpoints ----
InitApi ==
    /\ file_content = Sized(FileOne, "normal")
    /\ InitParse
    /\ backend \in Backends
    /\ InitService

UploadFile ==
    /\ uuids + 2 <= MaxUuids
    /\ \E content \in UploadContents, file_name \in FileNames,
          fault \in SaveFaults(backend) :
          LET file_id == uuid4(uuids)
              invoked == ParseInvoked(content)
              parse_result == IF invoked
                              THEN parse_file(content, file_name, uuid4(uuids + 1))
                              ELSE NotCalled
              saves == parse_result.status = "ok"
              save_raises == saves /\ StoreSaveRaises(backend, fault.fail)
          IN  /\ file_content' = content
              /\ result' = parse_result
              /\ records' = IF invoked THEN ParsedRecords(content) ELSE <<>>
              /\ attempted' = IF invoked THEN Attempts(content) ELSE 0
              /\ uuids' = IF saves THEN uuids + 2 ELSE uuids + 1
              /\ store' = IF saves
                          THEN StoreSave(backend, store, file_id, parse_result.bundle,
                                         fault.fail, fault.cleanup_fails)
                          ELSE store
              /\ saved' = saves
              /\ response' = upload_file(content, file_name, file_id,
                                         parse_result, save_raises)
              /\ expect' = IF saves
                           THEN [expect EXCEPT ![file_id] =
                                    IF save_raises THEN Unknown
                                    ELSE Saved(parse_result.bundle)]
                           ELSE expect
    /\ UNCHANGED <<csv_out, backend, last_op>>

GetFileData ==
    /\ \E file_id \in Ids, fails \in ReadFaults(backend) :
          response' = get_file_data(file_id, StoreGet(backend, store, file_id, fails))
    /\ saved' = FALSE
    /\ UNCHANGED <<parseVars, storeVars, uuids, ghostVars>>

ListFiles ==
    /\ \E fails \in ReadFaults(backend) :
          response' = list_files(StoreList(backend, store, fails))
    /\ saved' = FALSE
    /\ UNCHANGED <<parseVars, storeVars, uuids, ghostVars>>

DeleteFile ==
    /\ \E file_id \in Ids, fails \in ReadFaults(backend), fail \in DeleteFaults(backend) :
          LET file_data == StoreGet(backend, store, file_id, fails)
              raised == StoreDeleteRaises(backend, fail)
          IN  /\ response' = delete_file(file_id, file_data, raised)
              /\ store' = IF file_data = {} THEN store
                          ELSE StoreDelete(backend, store, file_id, fail)
              /\ expect' = IF file_data = {} THEN expect
                           ELSE [expect EXCEPT ![file_id] =
                                    IF raised THEN Unknown ELSE Absent]
    /\ saved' = FALSE
    /\ UNCHANGED <<parseVars, backend, uuids, last_op>>

ExportFile ==
    /\ \E file_id \in Ids, fails \in ReadFaults(backend),
          format \in Formats, include_prices \in BOOLEAN :
          LET file_data == StoreGet(backend, store, file_id, fails) IN
          \* the request's format is kept beside the response to it
          /\ response' = [format |-> format]
                            @@ export_file(file_id, file_data, format, include_prices)
          /\ csv_out' =
                IF file_data = {} \/ Lower(format) # "csv" THEN CsvNotCalled
                ELSE LET markets == (CHOOSE d \in file_data : TRUE).markets IN
                     IF ToCsvRaises(markets, include_prices)
                     THEN CsvRaised(include_prices)
                     ELSE CsvReturned(include_prices, to_csv(markets, include_prices))
    /\ saved' = FALSE
    /\ UNCHANGED <<file_content, records, attempted, result,
                   storeVars, uuids, ghostVars>>

NextApi == UploadFile \/ GetFileData \/ ListFiles \/ DeleteFile \/ ExportFile

SpecApi == InitApi /\ [][NextApi]_vars

(***************************************************************************)
(* Properties.                                                             *)
(***************************************************************************)
Decompressed == file_content.bz /\ file_content.valid
Text == file_content.text
ParseDone == result.status # "none"
Bundled == result.status = "ok"
Markets == result.bundle.markets

\* the decoded records that normalize, and the k-th of them in input order
GoodRecords == {i \in 1..Len(records) : ~ExtractRaises(records[i])}
KthGood(k) ==
    CHOOSE i \in GoodRecords : Cardinality({j \in GoodRecords : j < i}) = k - 1

\* the book entries of a record that normalized
BooksOf(value) == Get(McList(value.d)[1], "runners", <<>>)

\* the count a record claims, as a set: {} when it claims none
ClaimedCount(value) ==
    IF value.t = "dict"
    THEN GetOpt(Get(value.d, "marketDefinition", EmptyDict), "numberOfActiveRunners")
    ELSE {}

\* C1: every market of a returned bundle has number_of_runners equal to the
\* length of its runners list, whatever count the input record carried
C1_NumberOfRunners ==
    Bundled => \A k \in 1..Len(Markets) :
                  Markets[k].number_of_runners = Len(Markets[k].runners)

\* a bundle holds the market of a record that claimed another count
C1_Witness ==
    /\ Bundled
    /\ \E i \in GoodRecords :
          /\ ClaimedCount(records[i]) # {}
          /\ ClaimedCount(records[i]) # {BookCount(records[i])}

NonBlankLines == {i \in 1..Len(Text) : Text[i].kind # "blank"}
JsonLines == {i \in 1..Len(Text) : Text[i].kind = "json"}

NoBookRaises(value) ==
    \A j \in 1..Len(BooksOf(value)) : ~BookRaises(BooksOf(value)[j])

\* C5: a record whose mc list is empty, or whose mc[0] has no id, yields a
\* snapshot with market_id "UNKNOWN" (and one with mc[0].id otherwise); a
\* record with mc == [] yields a snapshot rather than an error. Stated for
\* the files that decode to one record whose runners raise nothing.
C5_MarketIdDefault ==
    (ParseDone /\ Len(records) = 1 /\ records[1].t = "dict") =>
      LET mc == McList(records[1].d) IN
        /\ mc = <<>> => (Bundled /\ Markets[1].market_id = "UNKNOWN")
        /\ (mc # <<>> /\ NoBookRaises(records[1])) =>
              /\ Bundled
              /\ Markets[1].market_id =
                    IF "id" \in DOMAIN mc[1] THEN mc[1].id ELSE "UNKNOWN"

\* the catalogue runners list of a record ([] when absent)
CatalogueOf(value) ==
    Get(Get(value.d, "marketCatalogue", EmptyDict), "runners", <<>>)

\* the catalogue entries whose selectionId is the id of a book entry
MatchesOf(value, j) ==
    {c \in 1..Len(CatalogueOf(value)) :
        /\ "selectionId" \in DOMAIN CatalogueOf(value)[c]
        /\ CatalogueOf(value)[c].selectionId = BooksOf(value)[j].id}

FirstOf(S) == CHOOSE c \in S : \A d \in S : c <= d

\* C6: the j-th runner of a market is named after the first catalogue
\* entry, in catalogue order, whose selectionId is the id of the j-th book
\* entry (by that entry's runnerName, "Unknown" when it has none), and
\* "Unknown" when no entry matches, as with an empty or absent catalogue
C6_RunnerName ==
    Bundled =>
      /\ Len(Markets) = Cardinality(GoodRecords)
      /\ \A k \in 1..Len(Markets) :
            LET value == records[KthGood(k)] IN
            \A j \in 1..Len(Markets[k].runners) :
                Markets[k].runners[j].runner_name =
                    IF MatchesOf(value, j) = {} THEN "Unknown"
                    ELSE Get(CatalogueOf(value)[FirstOf(MatchesOf(value, j))],
                             "runnerName", "Unknown")

\* a runner took the name of the first of two matching entries that differ
C6_Witness ==
    /\ Bundled
    /\ \E k \in 1..Len(Markets) : \E j \in 1..Len(Markets[k].runners) :
          LET value == records[KthGood(k)]
              cat == CatalogueOf(value) IN
          \E c, d \in MatchesOf(value, j) :
              /\ c < d
              /\ c = FirstOf(MatchesOf(value, j))
              /\ "runnerName" \in DOMAIN cat[c]
              /\ "runnerName" \in DOMAIN cat[d]
              /\ cat[c].runnerName # cat[d].runnerName
              /\ Markets[k].runners[j].runner_name = cat[c].runnerName

\* the ladder of a produced runner that a raw field feeds
OutLadder(runner, f) ==
    CASE f = <<"sp", "bst">> -> runner.bsp.back_stake_taken
      [] f = <<"sp", "lst">> -> runner.bsp.lay_liability_taken
      [] f = <<"ex", "atb">> -> runner.ex.available_to_back
      [] f = <<"ex", "atl">> -> runner.ex.available_to_lay
      [] f = <<"ex", "tv">> -> runner.ex.traded_volume

FieldPresent(book, f) == f[1] \in DOMAIN book /\ f[2] \in DOMAIN book[f[1]]

\* C7: each ladder of a produced runner has the length and order of the
\* input array, an element that is a sequence is passed through unchanged,
\* a bare number v becomes [v, 0.0], and an absent field or sub-record
\* gives the empty ladder
C7_Ladders ==
    Bundled =>
      /\ Len(Markets) = Cardinality(GoodRecords)
      /\ \A k \in 1..Len(Markets) : \A j \in 1..Len(Markets[k].runners) :
            \A f \in LadderFields :
              LET book == BooksOf(records[KthGood(k)])[j]
                  out == OutLadder(Markets[k].runners[j], f) IN
              IF FieldPresent(book, f)
              THEN LET raw == book[f[1]][f[2]] IN
                   /\ Len(out) = Len(raw)
                   /\ \A i \in 1..Len(raw) :
                         /\ raw[i].k = "seq" => out[i] = raw[i].v
                         /\ raw[i].k = "num" => out[i] = <<raw[i].v[1], 0>>
              ELSE out = <<>>

\* a produced runner has a ladder made of a bare number followed by a pair,
\* and another ladder field absent
C7_Witness ==
    /\ Bundled
    /\ \E k \in 1..Len(Markets) : \E j \in 1..Len(Markets[k].runners) :
          LET book == BooksOf(records[KthGood(k)])[j] IN
          /\ \E f \in LadderFields :
                /\ FieldPresent(book, f)
                /\ Len(book[f[1]][f[2]]) = 2
                /\ book[f[1]][f[2]][1].k = "num"
                /\ book[f[1]][f[2]][2].k = "seq"
                /\ Len(OutLadder(Markets[k].runners[j], f)) = 2
          /\ \E f \in LadderFields : ~FieldPresent(book, f)

RunnerCounts(markets) == [k \in 1..Len(markets) |-> Len(markets[k].runners)]

\* C8: in a returned bundle total_runners is the sum of len(runners) over
\* the markets of the bundle, and total_records is the number of lines
\* that decoded as JSON
C8_Stats ==
    Bundled =>
      /\ result.bundle.processing_stats.total_runners = SumSeq(RunnerCounts(Markets))
      /\ result.bundle.processing_stats.total_records = Cardinality(JsonLines)

\* a bundle was returned although a record that carried runners was skipped
C8_Witness ==
    /\ Bundled
    /\ result.bundle.processing_stats.total_runners > 0
    /\ \E i \in 1..Len(records) :
          ExtractRaises(records[i]) /\ BookCount(records[i]) > 0

\* the lines that decode and normalize, and the k-th of them
GoodLines ==
    {i \in 1..Len(Text) : Text[i].kind = "json" /\ ~ExtractRaises(Text[i].value)}
KthGoodLine(k) ==
    CHOOSE i \in GoodLines : Cardinality({j \in GoodLines : j < i}) = k - 1

RECURSIVE PairsFrom(_, _)
PairsFrom(markets, k) ==
    IF k > Len(markets) THEN <<>>
    ELSE [j \in 1..Len(markets[k].runners) |-> <<k, j>>] \o PairsFrom(markets, k + 1)

\* C10: for every list of markets and either value of include_prices the
\* output of to_csv is one header row followed by one row per (market,
\* runner) pair, so the data rows number the sum of the runner counts
C10_CsvRows ==
    csv_out.status # "none" =>
      /\ csv_out.status = "ok"
      /\ Len(csv_out.lines) = 1 + SumSeq(RunnerCounts(Markets))
      /\ csv_out.lines[1] = HeaderRow(csv_out.include_prices)

\* What does hold of to_csv: whenever it returns, its output is the header
\* row followed by one row per (market, runner) pair, in the order of the
\* nested loops.
CsvRowsWhenReturned ==
    csv_out.status = "ok" =>
      LET pairs == PairsFrom(Markets, 1) IN
      /\ Len(csv_out.lines) = 1 + SumSeq(RunnerCounts(Markets))
      /\ csv_out.lines[1] = HeaderRow(csv_out.include_prices)
      /\ Len(pairs) = Len(csv_out.lines) - 1
      /\ \A r \in 1..Len(pairs) :
            LET market == Markets[pairs[r][1]]
                runner == market.runners[pairs[r][2]]
                row == csv_out.lines[r + 1] IN
            /\ row[1] = market.market_id
            /\ row[4] = IntText(runner.selection_id)
            /\ Len(row) = Len(HeaderRow(csv_out.include_prices))

\* to_csv returned, with prices, for a market without runners followed by
\* a market with two
CsvRowsReached ==
    /\ csv_out.status = "ok"
    /\ csv_out.include_prices
    /\ Len(Markets) = 2
    /\ Markets[1].runners = <<>>
    /\ Len(Markets[2].runners) = 2
    /\ Len(csv_out.lines) = 3

\* the four Optional[float] fields of a runner, in the order of the price
\* columns 7..10 of a row
PriceFields(runner) ==
    <<runner.last_price_traded, runner.bsp.near_price,
      runner.bsp.far_price, runner.bsp.actual_sp>>

CsvWithPrices == csv_out.status = "ok" /\ csv_out.include_prices

\* the runner row r + 1 of the output is about
RowRunner(r) ==
    LET pair == PairsFrom(Markets, 1)[r] IN Markets[pair[1]].runners[pair[2]]

\* C11: with include_prices, a price field of a runner that is null renders
\* as the empty string in its column, never as "None" or "null"
C11_NullRendersEmpty ==
    CsvWithPrices =>
      \A r \in 1..(Len(csv_out.lines) - 1) : \A c \in 1..4 :
          /\ PriceFields(RowRunner(r))[c] = {} => csv_out.lines[r + 1][6 + c] = ""
          /\ csv_out.lines[r + 1][6 + c] \notin {"None", "null"}

\* a CSV with prices has a row of a runner without last traded price and a
\* row of a runner with one
C11_Witness ==
    /\ CsvWithPrices
    /\ \E r \in 1..(Len(csv_out.lines) - 1) :
          RowRunner(r).last_price_traded = {} /\ csv_out.lines[r + 1][7] = ""

\* C17: with include_prices, a price column is empty if and only if the
\* runner's field is null: every non-null value, 0 and 0.0 included,
\* renders as its numeric text
C17_EmptyIffNull ==
    CsvWithPrices =>
      \A r \in 1..(Len(csv_out.lines) - 1) : \A c \in 1..4 :
          LET field == PriceFields(RowRunner(r))[c]
              cell == csv_out.lines[r + 1][6 + c] IN
          /\ cell = "" <=> field = {}
          /\ field # {} => cell = FloatText(CHOOSE v \in field : TRUE)

(***************************************************************************)
(* Properties of the endpoints and of the stores.                          *)
(***************************************************************************)
Exported == response.op = "export" /\ response.status # 404
Recognized(format) == Lower(format) \in {"csv", "json"}

\* C12: an export request whose format, compared without regard to case,
\* is neither "csv" nor "json" is answered with 400 "Unsupported export
\* format", and never with the generic export failure; "CSV", "Json" and
\* the other case variants are not answered with the unsupported-format
\* error.
C12_UnsupportedFormat ==
    Exported =>
        IF Recognized(response.format)
        THEN response.detail # ErrUnsupported
        ELSE response.status = 400 /\ response.detail = ErrUnsupported

Uploaded == response.op = "upload"
NotBZ == ~file_content.bz

\* C13 as stated: an uploaded content that does not start with BZ is
\* rejected before parse_file is invoked, nothing is saved, and the
\* rejection is the invalid-format one.
C13_RejectedAsInvalidFormat ==
    (Uploaded /\ NotBZ) =>
        /\ result.status = "none"
        /\ ~saved
        /\ response.status = 400 /\ response.detail = ErrInvalidFormat

\* C13: an uploaded content that does not start with BZ is rejected before
\* parse_file is invoked, so never with a decompression error, and nothing
\* is saved; the rejection is "Empty file" (400) for an empty content,
\* "File too large" (413) for a content over the size limit, and the
\* invalid-format rejection (400) for every other one.
C13_RejectedBeforeParse ==
    (Uploaded /\ NotBZ) =>
        /\ result.status = "none"
        /\ ~saved
        /\ response = IF IsEmpty(file_content)
                        THEN HttpError("upload", 400, ErrEmptyFile)
                      ELSE IF TooLarge(file_content)
                        THEN HttpError("upload", 413, ErrTooLarge)
                      ELSE HttpError("upload", 400, ErrInvalidFormat)

C13_Witness ==
    /\ Uploaded /\ NotBZ
    /\ file_content.size = "normal"
    /\ response.detail = ErrInvalidFormat
    /\ result.status = "none" /\ ~saved

\* get(id) of the store in use, when no call of a cloud client fails
GetNow(id) == StoreGet(backend, store, id, FALSE)

\* C14: for FileStore and CloudFileStore, after any sequence of calls: when
\* save(id, bundle) completed and neither delete(id) nor save(id, ...) ran
\* since, get(id) returns that bundle, whether or not the bundle's own
\* file_metadata.file_id is id; and when delete(id) completed and no
\* save(id, ...) ran since, get(id) returns absent.
C14_SaveThenGet ==
    \A id \in StoreIds :
        /\ expect[id].k = "saved" => GetNow(id) = {expect[id].data}
        /\ expect[id].k = "absent" => GetNow(id) = {}

Listed == response.op = "list" /\ response.status = 200

\* C15: after any sequence of uploads and deletes, every file_id the
\* list_files endpoint reports is the file_id an upload returned to its
\* client, and get_file_data with it finds the bundle of that upload.
C15_ListedIdsAreStored ==
    Listed =>
        \A i \in 1..Len(response.files) :
            LET file_id == response.files[i].file_id IN
            /\ expect[file_id].k = "saved"
            /\ get_file_data(file_id, GetNow(file_id)).status = 200
            /\ GetNow(file_id) = {expect[file_id].data}

\* list_files turns the document of id into an entry
ListedInCloud(id) == store.docs[id] # {}

\* C16: in CloudFileStore, after save(id, data) raised, get(id) does not
\* return the data of the failed save (unless get(id) returned it before
\* the call); and after delete(id) of a file that get(id) returned raised,
\* the file is not listed by list_files while get(id) returns absent.
C16_FailedCalls ==
    (backend = "cloud" /\ last_op.op \in {"save", "delete"} /\ last_op.raised) =>
        /\ (last_op.op = "save" /\ last_op.before # {last_op.data})
              => GetNow(last_op.id) # {last_op.data}
        /\ (last_op.op = "delete" /\ last_op.before # {})
              => ~(ListedInCloud(last_op.id) /\ GetNow(last_op.id) = {})

====
